---- MODULE Spec2Model ----
(***************************************************************************)
(* Model of the task repository and scheduling engine of                   *)
(* src/server/storage.ts (class MemStorage).                               *)
(*                                                                         *)
(* Time.  A Date is modelled by the number of minutes since local midnight *)
(* of the calendar day before the reference date; getHours, getMinutes,    *)
(* setHours and setDate work in local time, as in the source.  The         *)
(* reference instant `now` is fixed in the source (2025-04-05T12:00Z); its *)
(* local time of day depends on the zone the server runs in, so `now` is   *)
(* an input chosen once in Init.  new Date(0) is far below every time the  *)
(* model uses and is modelled by Epoch.                                    *)
(*                                                                         *)
(* estimatedHours is kept in quarter hours (the form accepts multiples of  *)
(* 0.25); TaskDuration converts it to the time unit of the model.          *)
(*                                                                         *)
(* loop is the position of a pass inside its for loop and inflight holds   *)
(* the calls suspended at an await; both stay idle in the specifications   *)
(* that take a call as one step.                                           *)
(***************************************************************************)
EXTENDS Integers, Sequences, FiniteSets, TLC

VARIABLES tasks, currentTaskId, now, lastCall, issued, calls, loop, inflight

vars == <<tasks, currentTaskId, now, lastCall, issued, calls, loop, inflight>>

----------------------------------------------------------------------------
(* Bounds of the model *)

MaxTasks == 2

MaxId == 2

MaxUpdateFields == 1

MaxCalls == 4

MaxPasses == 2

MaxRequests == 3

----------------------------------------------------------------------------
(* Program constants *)

NULL == -1

Undefined == -2

Epoch == 0

MinutesPerHour == 60

MinutesPerDay == 1440

MinutesPerQuarter == 15

WorkStartHour == 9

WorkEndHour == 17

RoundingMinutes == 15

FirstTaskId == 1

HM(d, h, m) == d * MinutesPerDay + h * MinutesPerHour + m

----------------------------------------------------------------------------
(* Input domains *)

Priorities == {"low", "medium", "high"}

\* 0.25 h, 3 h, 9 h (longer than the working day)
EstimatedHoursValues == {1, 12, 36}

\* the day before now at 10:00; now's day at 16:30 and at 20:00
DueDates == {HM(0, 10, 0), HM(1, 16, 30), HM(1, 20, 0)}

\* now's day at 08:00, 12:00 (the source's value in UTC), 14:07, 16:50, 23:50
Nows == {HM(1, 8, 0), HM(1, 12, 0), HM(1, 14, 7), HM(1, 16, 50), HM(1, 23, 50)}

\* the inputs of the repository's requests: the source's now in UTC;
\* 0.25 h and 3 h; due the day before now at 10:00 and on now's day at 16:30
RepositoryNows == {HM(1, 12, 0)}

RepositoryEstimatedHours == {1, 12}

RepositoryPriorities == {"low", "high"}

RepositoryDueDates == {HM(0, 10, 0), HM(1, 16, 30)}

\* a slot a create request may carry
PayloadStart == HM(1, 10, 0)

PayloadEnd == HM(1, 11, 0)

----------------------------------------------------------------------------
(* Date arithmetic *)

getHours(t) == (t % MinutesPerDay) \div MinutesPerHour

getMinutes(t) == t % MinutesPerHour

DayOf(t) == t \div MinutesPerDay

TimeOfDay(t) == t % MinutesPerDay

\* Date.setHours(h, m, 0, 0)
setHours(t, h, m) == HM(DayOf(t), h, m)

\* d.setDate(d.getDate() + 1)
NextDate(t) == t + MinutesPerDay

\* Number(task.estimatedHours) * 60 * 60 * 1000
TaskDuration(estimatedHours) == estimatedHours * MinutesPerQuarter

----------------------------------------------------------------------------
(* The task map: a sequence of entries in insertion order *)

Task(id, est, prio, due, completed, start, end) ==
    [id |-> id, estimatedHours |-> est, priority |-> prio, dueDate |-> due,
     completed |-> completed, scheduledStart |-> start, scheduledEnd |-> end]

Keys(m) == {m[i].key : i \in 1..Len(m)}

MapHas(m, k) == k \in Keys(m)

MapGet(m, k) == LET i == CHOOSE j \in 1..Len(m) : m[j].key = k IN m[i].val

\* Map.set: an existing key keeps its position, a new key is appended
MapSet(m, k, v) ==
    IF MapHas(m, k)
    THEN [i \in 1..Len(m) |-> IF m[i].key = k THEN [key |-> k, val |-> v] ELSE m[i]]
    ELSE Append(m, [key |-> k, val |-> v])

\* Map.delete
MapDelete(m, k) == SelectSeq(m, LAMBDA e : e.key # k)

\* Array.from(this.tasks.values())
Values(m) == [i \in 1..Len(m) |-> m[i].val]

----------------------------------------------------------------------------
(* scheduleTasks *)

priorityMap(p) == CASE p = "high" -> 3 [] p = "medium" -> 2 [] p = "low" -> 1

\* a variant that compares the priority first and the due date second
CompareByPriorityFirst(a, b) ==
    LET priorityComparison == priorityMap(b.priority) - priorityMap(a.priority)
    IN  IF priorityComparison # 0 THEN priorityComparison
        ELSE a.dueDate - b.dueDate

\* a variant that compares the due date only
CompareByDueDateOnly(a, b) == a.dueDate - b.dueDate

\* the sort comparator: negative when a goes first
Compare(a, b) ==
    LET dateComparison == a.dueDate - b.dueDate
    IN  IF dateComparison # 0 THEN dateComparison
        ELSE priorityMap(b.priority) - priorityMap(a.priority)

\* insert t behind every element that does not compare greater (stable)
RECURSIVE InsertSorted(_, _)
InsertSorted(s, t) ==
    IF s = <<>> THEN <<t>>
    ELSE IF Compare(s[Len(s)], t) <= 0 THEN Append(s, t)
    ELSE Append(InsertSorted(SubSeq(s, 1, Len(s) - 1), t), s[Len(s)])

\* a variant that leaves the tasks in the order in which they are stored
SortTasksKeepsStoredOrder(s) == s

RECURSIVE SortTasks(_)
SortTasks(s) ==
    IF s = <<>> THEN <<>>
    ELSE InsertSorted(SortTasks(SubSeq(s, 1, Len(s) - 1)), s[Len(s)])

\* a variant that does not filter the completed tasks out
IncompleteTasksKeepsCompleted(m) == SortTasks(Values(m))

IncompleteTasks(m) == SortTasks(SelectSeq(Values(m), LAMBDA t : t.completed = 0))

\* a variant that ignores the due date's time of day
PreferredTimeAlwaysOpening(task, n) == setHours(n, WorkStartHour, 0)

\* a variant whose window includes the hour of 17:00
PreferredTimeClosedWindow(task, n) ==
    LET dueHours == getHours(task.dueDate)
        dueMinutes == getMinutes(task.dueDate)
    IN  IF dueHours >= WorkStartHour /\ dueHours <= WorkEndHour
        THEN setHours(n, dueHours, dueMinutes)
        ELSE setHours(n, WorkStartHour, 0)

\* a variant that keeps the calendar day of the due date
PreferredTimeOnDueDay(task, n) ==
    LET dueHours == getHours(task.dueDate)
    IN  IF dueHours >= WorkStartHour /\ dueHours < WorkEndHour
        THEN task.dueDate
        ELSE setHours(n, WorkStartHour, 0)

\* the due date's time of day inside working hours, else 9 AM, on now's day
PreferredTime(task, n) ==
    LET dueHours == getHours(task.dueDate)
        dueMinutes == getMinutes(task.dueDate)
    IN  IF dueHours >= WorkStartHour /\ dueHours < WorkEndHour
        THEN setHours(n, dueHours, dueMinutes)
        ELSE setHours(n, WorkStartHour, 0)

\* a variant that also moves a time that is already on a quarter hour
RoundUpPastBoundary(t) ==
    LET minutes == getMinutes(t)
        remainder == minutes % RoundingMinutes
    IN  t - minutes + (minutes + (RoundingMinutes - remainder))

\* round to the next 15-minute interval
RoundUp(t) ==
    LET minutes == getMinutes(t)
        remainder == minutes % RoundingMinutes
    IN  IF remainder > 0 THEN t - minutes + (minutes + (RoundingMinutes - remainder)) ELSE t

\* a variant that keeps a candidate that lies before now
NoPastKeepsCandidate(t, n) == t

\* never schedule in the past
NoPast(t, n) == IF t < n THEN RoundUp(n) ELSE t

\* a variant that moves every candidate outside the window to the next day
ClampToWorkingHoursAlwaysNextDay(t) ==
    LET currentHour == getHours(t)
    IN  IF currentHour < WorkStartHour \/ currentHour >= WorkEndHour
        THEN setHours(NextDate(t), WorkStartHour, 0)
        ELSE t

\* enforce working hours
ClampToWorkingHours(t) ==
    LET currentHour == getHours(t)
    IN  IF currentHour < WorkStartHour \/ currentHour >= WorkEndHour
        THEN setHours(IF currentHour >= WorkEndHour THEN NextDate(t) ELSE t, WorkStartHour, 0)
        ELSE t

\* a variant that never moves the candidate behind the latest end
AfterLatestEndKeepsCandidate(t, latestScheduledEndTime) == t

\* a variant that starts every task but the first at the latest end
AfterLatestEndLeavesNoGap(t, latestScheduledEndTime) ==
    IF latestScheduledEndTime > Epoch THEN latestScheduledEndTime ELSE t

\* start after the latest end when the candidate would overlap
AfterLatestEnd(t, latestScheduledEndTime) ==
    IF latestScheduledEndTime > Epoch /\ t < latestScheduledEndTime
    THEN latestScheduledEndTime
    ELSE t

\* a variant that leaves a task longer than the working day where it is
FitInDayKeepsOversized(t, taskDuration) ==
    LET endOfWorkDay == setHours(t, WorkEndHour, 0)
        tentativeEndTime == t + taskDuration
    IN  IF /\ tentativeEndTime > endOfWorkDay
           /\ taskDuration <= (WorkEndHour - WorkStartHour) * MinutesPerHour
        THEN setHours(NextDate(t), WorkStartHour, 0)
        ELSE t

\* a variant that also moves a task that would end at 17:00 exactly
FitInDayMovesAtBoundary(t, taskDuration) ==
    LET endOfWorkDay == setHours(t, WorkEndHour, 0)
        tentativeEndTime == t + taskDuration
    IN  IF tentativeEndTime >= endOfWorkDay
        THEN setHours(NextDate(t), WorkStartHour, 0)
        ELSE t

\* a variant without the fit-in-day step
FitInDayNeverMoves(t, taskDuration) == t

\* tasks must fit within working hours: one move to the next day's 9 AM
FitInDay(t, taskDuration) ==
    LET endOfWorkDay == setHours(t, WorkEndHour, 0)
        tentativeEndTime == t + taskDuration
    IN  IF tentativeEndTime > endOfWorkDay
        THEN setHours(NextDate(t), WorkStartHour, 0)
        ELSE t

\* the body of the loop for one task: its final scheduledStart
ScheduledStart(task, latestScheduledEndTime, n) ==
    FitInDay(AfterLatestEnd(ClampToWorkingHours(NoPast(PreferredTime(task, n), n)),
                            latestScheduledEndTime),
             TaskDuration(task.estimatedHours))

\* a variant that cuts the end off at 5 PM of the start's day
WithSlotEndCutAtClose(task, start) ==
    LET end == start + TaskDuration(task.estimatedHours)
        endOfWorkDay == setHours(start, WorkEndHour, 0)
    IN  [task EXCEPT !.scheduledStart = start,
                     !.scheduledEnd = IF end > endOfWorkDay THEN endOfWorkDay ELSE end]

\* updatedTask = { ...task, scheduledStart, scheduledEnd }
WithSlot(task, start) ==
    [task EXCEPT !.scheduledStart = start,
                 !.scheduledEnd = start + TaskDuration(task.estimatedHours)]

\* the for loop over incompleteTasks[i..], writing each task under task.id
RECURSIVE ScheduleLoop(_, _, _, _, _)
ScheduleLoop(sorted, i, latestScheduledEndTime, m, n) ==
    IF i > Len(sorted) THEN m
    ELSE LET task == sorted[i]
             updatedTask == WithSlot(task, ScheduledStart(task, latestScheduledEndTime, n))
         IN  ScheduleLoop(sorted, i + 1, updatedTask.scheduledEnd,
                          MapSet(m, task.id, updatedTask), n)

\* a variant that starts behind the slots the store already holds
RECURSIVE LatestStoredEnd(_, _)
LatestStoredEnd(m, i) ==
    IF i > Len(m) THEN Epoch
    ELSE LET rest == LatestStoredEnd(m, i + 1)
         IN  IF m[i].val.scheduledEnd > rest THEN m[i].val.scheduledEnd ELSE rest

ScheduledBehindStoredSlots(m, n) ==
    ScheduleLoop(IncompleteTasks(m), 1, LatestStoredEnd(m, 1), m, n)

\* a variant that starts behind the slots of the completed tasks
RECURSIVE LatestCompletedEnd(_, _)
LatestCompletedEnd(m, i) ==
    IF i > Len(m) THEN Epoch
    ELSE LET rest == LatestCompletedEnd(m, i + 1)
         IN  IF m[i].val.completed # 0 /\ m[i].val.scheduledEnd > rest
             THEN m[i].val.scheduledEnd
             ELSE rest

ScheduledBehindCompletedSlots(m, n) ==
    ScheduleLoop(IncompleteTasks(m), 1, LatestCompletedEnd(m, 1), m, n)

\* the store after a pass
Scheduled(m, n) == ScheduleLoop(IncompleteTasks(m), 1, Epoch, m, n)

scheduleTasks ==
    /\ tasks' = Scheduled(tasks, now)
    /\ lastCall' = [op |-> "scheduleTasks", id |-> NULL, arg |-> <<>>,
                    pass |-> TRUE, ok |-> TRUE,
                    ret |-> Values(Scheduled(tasks, now))]
    /\ UNCHANGED <<currentTaskId, now, issued>>

----------------------------------------------------------------------------
(* The engine on its own: any stored task set, any now, then passes *)

TaskInputs ==
    [estimatedHours : EstimatedHoursValues, priority : Priorities,
     dueDate : DueDates, completed : {0, 1}]

StoreOf(f, n) ==
    [i \in 1..n |->
        [key |-> i,
         val |-> Task(i, f[i].estimatedHours, f[i].priority, f[i].dueDate,
                      f[i].completed, NULL, NULL)]]

\* no pass is inside its loop
NoLoop ==
    [running |-> FALSE, incompleteTasks |-> <<>>, i |-> 0,
     latestScheduledEndTime |-> Epoch, visited |-> <<>>]

NoCall ==
    [op |-> "none", id |-> NULL, arg |-> <<>>, pass |-> FALSE, ok |-> TRUE, ret |-> <<>>]

InitEngine ==
    /\ \E n \in 0..MaxTasks : \E f \in [1..n -> TaskInputs] : tasks = StoreOf(f, n)
    /\ currentTaskId = Len(tasks) + 1
    /\ now \in Nows
    /\ lastCall = NoCall
    /\ issued = [i \in 1..Len(tasks) |-> i]
    /\ calls = 0
    /\ loop = NoLoop
    /\ inflight = {}

NextEngine == scheduleTasks /\ UNCHANGED <<calls, loop, inflight>>

SpecEngine == InitEngine /\ [][NextEngine]_vars

----------------------------------------------------------------------------
(* The repository: createTask, updateTask, deleteTask, scheduleTasks *)

\* x || d
OrElse(x, d) == IF x = Undefined \/ x = NULL \/ x = 0 THEN d ELSE x

\* what a request body may carry; Undefined (for priority: "undefined")
\* marks a field the body leaves out
CreatePayloads ==
    {p \in [estimatedHours : RepositoryEstimatedHours,
            priority : RepositoryPriorities,
            dueDate : RepositoryDueDates,
            completed : {Undefined, 1},
            scheduledStart : {Undefined, PayloadStart},
            scheduledEnd : {Undefined, PayloadEnd}] :
        (p.scheduledStart = Undefined) = (p.scheduledEnd = Undefined)}

Carries(taskUpdate, f) ==
    /\ f \in DOMAIN taskUpdate
    /\ taskUpdate[f] # (IF f = "priority" THEN "undefined" ELSE Undefined)

UpdatePayloads ==
    {p \in [id : (FirstTaskId..MaxId) \cup {Undefined},
            estimatedHours : RepositoryEstimatedHours \cup {Undefined, 0},
            priority : RepositoryPriorities \cup {"undefined"},
            dueDate : RepositoryDueDates \cup {Undefined},
            completed : {Undefined, 0, 1},
            scheduledStart : {Undefined, PayloadStart},
            scheduledEnd : {Undefined, PayloadEnd}] :
        Cardinality({f \in DOMAIN p : Carries(p, f)}) <= MaxUpdateFields}

\* a variant that returns the record as built, before the pass
createTaskReturnsUnscheduled(insertTask) ==
    LET id == currentTaskId
        task == Task(id,
                     OrElse(insertTask.estimatedHours, 0),
                     IF insertTask.priority = "undefined" THEN "medium"
                     ELSE insertTask.priority,
                     insertTask.dueDate,
                     OrElse(insertTask.completed, 0),
                     OrElse(insertTask.scheduledStart, NULL),
                     OrElse(insertTask.scheduledEnd, NULL))
        after == Scheduled(MapSet(tasks, id, task), now)
    IN  /\ currentTaskId <= MaxId
        /\ currentTaskId' = currentTaskId + 1
        /\ tasks' = after
        /\ lastCall' = [op |-> "createTask", id |-> id, arg |-> insertTask,
                        pass |-> TRUE, ok |-> TRUE,
                        ret |-> <<task>>]
        /\ issued' = Append(issued, task.id)
        /\ UNCHANGED now

createTask(insertTask) ==
    LET id == currentTaskId
        task == Task(id,
                     OrElse(insertTask.estimatedHours, 0),
                     IF insertTask.priority = "undefined" THEN "medium"
                     ELSE insertTask.priority,
                     insertTask.dueDate,
                     OrElse(insertTask.completed, 0),
                     OrElse(insertTask.scheduledStart, NULL),
                     OrElse(insertTask.scheduledEnd, NULL))
        after == Scheduled(MapSet(tasks, id, task), now)
    IN  /\ currentTaskId <= MaxId
        /\ currentTaskId' = currentTaskId + 1
        /\ tasks' = after
        /\ lastCall' = [op |-> "createTask", id |-> id, arg |-> insertTask,
                        pass |-> TRUE, ok |-> TRUE,
                        ret |-> <<MapGet(after, id)>>]
        /\ issued' = Append(issued, MapGet(after, id).id)
        /\ UNCHANGED now

\* { ...task, ...taskUpdate }
Merge(task, taskUpdate) ==
    [f \in DOMAIN task |-> IF Carries(taskUpdate, f) THEN taskUpdate[f] ELSE task[f]]

\* taskUpdate.estimatedHours || taskUpdate.priority || taskUpdate.dueDate
AffectsScheduling(taskUpdate) ==
    \/ OrElse(taskUpdate.estimatedHours, 0) # 0
    \/ taskUpdate.priority # "undefined"
    \/ taskUpdate.dueDate # Undefined

\* a variant of updateTask that runs the pass before it reports a missing id
updateTaskReschedulesWhenMissing(id, taskUpdate) ==
    IF ~MapHas(tasks, id)
    THEN /\ tasks' = Scheduled(tasks, now)
         /\ lastCall' = [op |-> "updateTask", id |-> id, arg |-> taskUpdate,
                         pass |-> TRUE, ok |-> FALSE,
                         ret |-> <<>>]
         /\ UNCHANGED <<currentTaskId, now, issued>>
    ELSE LET updatedTask == Merge(MapGet(tasks, id), taskUpdate)
             stored == MapSet(tasks, id, updatedTask)
         IN  /\ tasks' = IF AffectsScheduling(taskUpdate) THEN Scheduled(stored, now)
                         ELSE stored
             /\ lastCall' = [op |-> "updateTask", id |-> id, arg |-> taskUpdate,
                             pass |-> AffectsScheduling(taskUpdate), ok |-> TRUE,
                             ret |-> <<updatedTask>>]
             /\ UNCHANGED <<currentTaskId, now, issued>>

updateTask(id, taskUpdate) ==
    IF ~MapHas(tasks, id)
    THEN /\ lastCall' = [op |-> "updateTask", id |-> id, arg |-> taskUpdate,
                         pass |-> FALSE, ok |-> FALSE,
                         ret |-> <<>>]
         /\ UNCHANGED <<tasks, currentTaskId, now, issued>>
    ELSE LET updatedTask == Merge(MapGet(tasks, id), taskUpdate)
             stored == MapSet(tasks, id, updatedTask)
         IN  /\ tasks' = IF AffectsScheduling(taskUpdate) THEN Scheduled(stored, now)
                         ELSE stored
             /\ lastCall' = [op |-> "updateTask", id |-> id, arg |-> taskUpdate,
                             pass |-> AffectsScheduling(taskUpdate), ok |-> TRUE,
                             ret |-> <<updatedTask>>]
             /\ UNCHANGED <<currentTaskId, now, issued>>

deleteTask(id) ==
    LET deleted == MapHas(tasks, id)
    IN  /\ tasks' = IF deleted THEN Scheduled(MapDelete(tasks, id), now) ELSE tasks
        /\ lastCall' = [op |-> "deleteTask", id |-> id, arg |-> <<>>,
                        pass |-> deleted, ok |-> deleted,
                        ret |-> <<>>]
        /\ UNCHANGED <<currentTaskId, now, issued>>

Init ==
    /\ tasks = <<>>
    /\ currentTaskId = FirstTaskId
    /\ now \in RepositoryNows
    /\ lastCall = NoCall
    /\ issued = <<>>
    /\ calls = 0
    /\ loop = NoLoop
    /\ inflight = {}

\* one more request served, up to the bound on the length of a history
Served == calls < MaxCalls /\ calls' = calls + 1 /\ UNCHANGED <<loop, inflight>>

Next ==
    \/ \E insertTask \in CreatePayloads : createTask(insertTask) /\ Served
    \/ \E id \in FirstTaskId..MaxId, taskUpdate \in UpdatePayloads :
          updateTask(id, taskUpdate) /\ Served
    \/ \E id \in FirstTaskId..MaxId : deleteTask(id) /\ Served
    \/ scheduleTasks /\ Served

Spec == Init /\ [][Next]_vars

\* the same repository when no update body carries an id field
UpdatePayloadsNoId == {p \in UpdatePayloads : p.id = Undefined}

NextNoIdField ==
    \/ \E insertTask \in CreatePayloads : createTask(insertTask) /\ Served
    \/ \E id \in FirstTaskId..MaxId, taskUpdate \in UpdatePayloadsNoId :
          updateTask(id, taskUpdate) /\ Served
    \/ \E id \in FirstTaskId..MaxId : deleteTask(id) /\ Served
    \/ scheduleTasks /\ Served

SpecNoIdField == Init /\ [][NextNoIdField]_vars

----------------------------------------------------------------------------
(* Properties of a pass, checked under SpecEngine *)

AfterPass == lastCall.op = "scheduleTasks"

Incomplete == {i \in 1..Len(tasks) : tasks[i].val.completed = 0}

Slot(i) == tasks[i].val

\* the candidate of a task before the overlap and fit-in-day steps
Candidate(task) == ClampToWorkingHours(NoPast(PreferredTime(task, now), now))

Disjoint(a, b) ==
    \/ a.scheduledEnd <= b.scheduledStart
    \/ b.scheduledEnd <= a.scheduledStart

\* C1: after a pass over a task set with positive durations, any two distinct
\* incomplete tasks have slots that do not overlap: one ends at or before the
\* other starts.
NoOverlapAfterPass ==
    (AfterPass /\ \A i \in Incomplete : Slot(i).estimatedHours > 0) =>
        \A i, j \in Incomplete : i # j => Disjoint(Slot(i), Slot(j))

\* a pass has moved one task behind the end of another it would have overlapped
NoOverlapWitness ==
    /\ AfterPass
    /\ \E i, j \in Incomplete :
         /\ i # j
         /\ Slot(i).estimatedHours > 0
         /\ Candidate(Slot(j)) < Slot(i).scheduledEnd
         /\ Candidate(Slot(j)) >= Slot(i).scheduledStart
         /\ Slot(j).scheduledStart = Slot(i).scheduledEnd

\* C2: after a pass every incomplete task, whatever its estimatedHours, starts
\* at or after 09:00, ends at or before 17:00, and starts and ends on the same
\* calendar day.
WorkingHoursContainment ==
    AfterPass =>
        \A i \in Incomplete :
            /\ TimeOfDay(Slot(i).scheduledStart) >= HM(0, WorkStartHour, 0)
            /\ TimeOfDay(Slot(i).scheduledEnd) <= HM(0, WorkEndHour, 0)
            /\ DayOf(Slot(i).scheduledStart) = DayOf(Slot(i).scheduledEnd)

\* C3: after a pass with reference time now, every incomplete task starts at
\* or after now, for now before, inside and after the working window.
NoPastAfterPass ==
    AfterPass => \A i \in Incomplete : Slot(i).scheduledStart >= now

\* a pass has placed a task whose preferred time lay before now
NoPastWitness ==
    /\ AfterPass
    /\ \E i \in Incomplete :
         /\ PreferredTime(Slot(i), now) < now
         /\ Slot(i).scheduledStart > now

\* C4: after a pass every incomplete task's slot is exactly as long as its
\* estimatedHours, also when the overlap step or the fit-in-day step moved it.
DurationExactAfterPass ==
    AfterPass =>
        \A i \in Incomplete :
            Slot(i).scheduledEnd - Slot(i).scheduledStart
                = TaskDuration(Slot(i).estimatedHours)

\* a pass has moved one task behind another and one task to the next day
\* because it did not fit before 17:00
DurationExactWitness ==
    /\ AfterPass
    /\ getHours(now) < WorkEndHour - 1
    /\ \E i, j \in Incomplete :
         /\ i # j
         /\ Candidate(Slot(j)) < Slot(i).scheduledEnd
         /\ Slot(j).scheduledStart = Slot(i).scheduledEnd
    /\ \E k \in Incomplete :
         /\ DayOf(Slot(k).scheduledStart) > DayOf(now)
         /\ Slot(k).estimatedHours <= (WorkEndHour - WorkStartHour) * 4

----------------------------------------------------------------------------
(* Properties of the repository, checked under Spec *)

Stored == 1..Len(tasks)

HasSlot(t) == t.scheduledStart # NULL /\ t.scheduledEnd # NULL

\* C5: in every reachable state every stored task, completed or not, whose
\* scheduledStart and scheduledEnd are both non-null has a slot exactly as long
\* as its estimatedHours, also after updateTask changed the estimatedHours of a
\* completed task.
DurationInvariant ==
    \A i \in Stored :
        HasSlot(Slot(i)) =>
            Slot(i).scheduledEnd - Slot(i).scheduledStart
                = TaskDuration(Slot(i).estimatedHours)

\* C6: in every reachable state any two incomplete stored tasks with non-null
\* slots have slots that do not overlap.
NoOverlapInvariant ==
    \A i, j \in Incomplete :
        (i # j /\ HasSlot(Slot(i)) /\ HasSlot(Slot(j))) => Disjoint(Slot(i), Slot(j))

\* C7: right after createTask, updateTask or deleteTask returns, every
\* incomplete task carries the slot a full pass over the stored set at the
\* same now assigns: the stored state is a fixed point of the engine.
FreshScheduleAfterMutation ==
    lastCall.op \in {"createTask", "updateTask", "deleteTask"} =>
        \A i \in Incomplete :
            LET fresh == Scheduled(tasks, now)
            IN  /\ MapHas(fresh, tasks[i].key)
                /\ MapGet(fresh, tasks[i].key).scheduledStart = Slot(i).scheduledStart
                /\ MapGet(fresh, tasks[i].key).scheduledEnd = Slot(i).scheduledEnd

\* C8: when updateTask on an existing id runs a reschedule pass, the record it
\* returns has the scheduledStart and scheduledEnd of the record stored under
\* that id when the call returns.
UpdateReturnsRescheduled ==
    (lastCall.op = "updateTask" /\ lastCall.ok /\ lastCall.pass) =>
        /\ MapHas(tasks, lastCall.id)
        /\ lastCall.ret[1].scheduledStart = MapGet(tasks, lastCall.id).scheduledStart
        /\ lastCall.ret[1].scheduledEnd = MapGet(tasks, lastCall.id).scheduledEnd

\* what C9 says of the record a createTask call returned
ReturnedScheduled ==
    LET r == lastCall.ret[1]
    IN  /\ MapHas(tasks, lastCall.id)
        /\ r = MapGet(tasks, lastCall.id)
        /\ r.completed = 0
        /\ HasSlot(r)
        /\ r.scheduledStart >= now
        /\ r.scheduledEnd = r.scheduledStart + TaskDuration(r.estimatedHours)

IdsUniqueAndIncreasing ==
    /\ \A i, j \in 1..Len(issued) : i < j => issued[i] < issued[j]
    /\ \A i, j \in Stored : i # j => Slot(i).id # Slot(j).id

----------------------------------------------------------------------------
(* Identity, failed requests, deletion *)

\* C11: in every reachable state each record is stored under the key equal to
\* its own id field: no updateTask, whatever its payload carries (an id field
\* included), changes the id of a stored record, and no later pass writes an
\* entry under another key.
IdImmutability ==
    \A i \in Stored : tasks[i].key = Slot(i).id

\* C12: updateTask and deleteTask with an id that is absent from the store
\* report not-found (undefined, false), run no pass, and leave every stored
\* task, the order of the store and the id counter as they were.
FailedCallsChangeNothing ==
    [][(/\ lastCall'.op \in {"updateTask", "deleteTask"}
        /\ ~MapHas(tasks, lastCall'.id))
       => /\ ~lastCall'.ok
          /\ lastCall'.ret = <<>>
          /\ ~lastCall'.pass
          /\ tasks' = tasks
          /\ currentTaskId' = currentTaskId]_vars

\* updateTask has reported a missing id for a payload that would have caused
\* a pass, while another task is stored with a slot
FailedCallsChangeNothingWitness ==
    /\ lastCall.op = "updateTask"
    /\ ~lastCall.ok
    /\ AffectsScheduling(lastCall.arg)
    /\ \E i \in Stored : HasSlot(Slot(i)) /\ tasks[i].key # lastCall.id

\* r comes behind d in the commitment order of the incomplete tasks of m
Follows(m, d, r) ==
    LET sorted == IncompleteTasks(m)
    IN  \E i, j \in 1..Len(sorted) : i < j /\ sorted[i] = d /\ sorted[j] = r

\* the incomplete tasks of m carry the slots a pass over m at n assigns
FreshlyScheduled(m, n) ==
    \A i \in 1..Len(m) :
        m[i].val.completed = 0 =>
            /\ MapHas(Scheduled(m, n), m[i].key)
            /\ MapGet(Scheduled(m, n), m[i].key) = m[i].val

\* C13: deleteTask of a stored id returns success and removes exactly that
\* record (every other id stays, none is added); the remaining incomplete
\* tasks carry the slots a fresh pass over the remainder assigns, and a task
\* that followed the deleted one in commitment order, and had a slot, starts
\* no later than it did before the call.
DeleteRemovesAndReschedules ==
    [][(lastCall'.op = "deleteTask" /\ MapHas(tasks, lastCall'.id))
       => /\ lastCall'.ok
          /\ Keys(tasks') = Keys(tasks) \ {lastCall'.id}
          /\ FreshlyScheduled(tasks', now)
          /\ \A k \in Keys(tasks') :
                (/\ k \in Keys(tasks)
                 /\ HasSlot(MapGet(tasks, k))
                 /\ Follows(tasks, MapGet(tasks, lastCall'.id), MapGet(tasks, k)))
                => MapGet(tasks', k).scheduledStart <= MapGet(tasks, k).scheduledStart]_vars

----------------------------------------------------------------------------
(* Frame conditions of a pass *)

\* C14: completed tasks are never touched: every step other than an
\* updateTask or deleteTask of the task itself (a pass, a create, a delete or
\* an update of another task) leaves every completed task stored under its
\* key with every field, scheduledStart and scheduledEnd included, unchanged.
CompletedNeverTouched ==
    [][\A k \in Keys(tasks) :
          (/\ MapGet(tasks, k).completed # 0
           /\ ~(lastCall'.op \in {"updateTask", "deleteTask"} /\ lastCall'.id = k))
          => /\ MapHas(tasks', k)
             /\ MapGet(tasks', k) = MapGet(tasks, k)]_vars

\* C15: a pass changes only slots: scheduleTasks returns and leaves stored the
\* same ids as before the call, completed tasks included, in the same order,
\* and changes no field other than scheduledStart and scheduledEnd of
\* incomplete tasks.
PassChangesOnlySlots ==
    [][lastCall'.op = "scheduleTasks"
       => /\ Len(tasks') = Len(tasks)
          /\ lastCall'.ret = Values(tasks')
          /\ {lastCall'.ret[j].id : j \in DOMAIN lastCall'.ret}
                = {tasks[i].val.id : i \in 1..Len(tasks)}
          /\ \A i \in 1..Len(tasks) :
                /\ tasks'[i].key = tasks[i].key
                /\ \A f \in DOMAIN tasks[i].val \ {"scheduledStart", "scheduledEnd"} :
                      tasks'[i].val[f] = tasks[i].val[f]
                /\ tasks[i].val.completed # 0 => tasks'[i].val = tasks[i].val]_vars

\* a pass has given a slot to an incomplete task stored next to a completed one
PassChangesOnlySlotsWitness ==
    /\ AfterPass
    /\ \E i, j \in Stored :
         /\ Slot(i).completed = 0
         /\ HasSlot(Slot(i))
         /\ Slot(j).completed # 0
         /\ ~HasSlot(Slot(j))

----------------------------------------------------------------------------
(* The commitment order *)

\* C16: due date dominates priority: after a pass, of any two incomplete tasks
\* the one with the strictly earlier dueDate ends at or before the other
\* starts, whatever their priorities, durations and due times of day.
DueDateDominatesPriority ==
    AfterPass =>
        \A i, j \in Incomplete :
            Slot(i).dueDate < Slot(j).dueDate =>
                Slot(i).scheduledEnd <= Slot(j).scheduledStart

\* a pass has placed a low-priority task due earlier before a high-priority
\* task due later whose own candidate lay in the gap before it
DueDateDominatesPriorityWitness ==
    /\ AfterPass
    /\ \E i, j \in Incomplete :
         /\ Slot(i).dueDate < Slot(j).dueDate
         /\ Slot(i).priority = "low"
         /\ Slot(j).priority = "high"
         /\ Candidate(Slot(j)) + TaskDuration(Slot(j).estimatedHours)
               <= Slot(i).scheduledStart
         /\ Slot(j).scheduledStart >= Slot(i).scheduledEnd

\* The engine on the stores of the tie-break scenario: tasks of 1 h and 3 h,
\* due on now's day at 09:00 or at 16:30, none completed; now at 08:00, at 09:00
\* and at 14:07
TieBreakEstimatedHours == {4, 12}

TieBreakDueDates == {HM(1, 9, 0), HM(1, 16, 30)}

TieBreakNows == {HM(1, 8, 0), HM(1, 9, 0), HM(1, 14, 7)}

TieBreakInputs ==
    [estimatedHours : TieBreakEstimatedHours, priority : Priorities,
     dueDate : TieBreakDueDates, completed : {0}]

InitTieBreak ==
    /\ \E n \in 0..MaxTasks : \E f \in [1..n -> TieBreakInputs] : tasks = StoreOf(f, n)
    /\ currentTaskId = Len(tasks) + 1
    /\ now \in TieBreakNows
    /\ lastCall = NoCall
    /\ issued = [i \in 1..Len(tasks) |-> i]
    /\ calls = 0
    /\ loop = NoLoop
    /\ inflight = {}

SpecTieBreak == InitTieBreak /\ [][NextEngine]_vars

\* two incomplete tasks and no other, high and low, both due at 09:00 of now's
\* day, 1 h each, with now at or before 09:00
TieBreakScenario(i, j) ==
    /\ Incomplete = {i, j}
    /\ i # j
    /\ Slot(i).priority = "high"
    /\ Slot(j).priority = "low"
    /\ Slot(i).dueDate = setHours(now, WorkStartHour, 0)
    /\ Slot(j).dueDate = setHours(now, WorkStartHour, 0)
    /\ TaskDuration(Slot(i).estimatedHours) = MinutesPerHour
    /\ TaskDuration(Slot(j).estimatedHours) = MinutesPerHour
    /\ now <= setHours(now, WorkStartHour, 0)

\* C17: priority breaks a due-date tie: after a pass, of two incomplete tasks
\* with the same dueDate and different priorities the one with the higher
\* priority (high > medium > low) ends at or before the other starts; with
\* both due at 09:00, 1 h each and now at or before 09:00, the high one gets
\* 09:00-10:00 and the low one 10:00-11:00.
PriorityTieBreak ==
    AfterPass =>
        \A i, j \in Incomplete :
            /\ (/\ Slot(i).dueDate = Slot(j).dueDate
                /\ priorityMap(Slot(i).priority) > priorityMap(Slot(j).priority))
               => Slot(i).scheduledEnd <= Slot(j).scheduledStart
            /\ TieBreakScenario(i, j)
               => /\ Slot(i).scheduledStart = setHours(now, WorkStartHour, 0)
                  /\ Slot(i).scheduledEnd = setHours(now, WorkStartHour + 1, 0)
                  /\ Slot(j).scheduledStart = setHours(now, WorkStartHour + 1, 0)
                  /\ Slot(j).scheduledEnd = setHours(now, WorkStartHour + 2, 0)

\* a pass has run on the scenario's store in which the low task was stored
\* before the high one
PriorityTieBreakWitness ==
    /\ AfterPass
    /\ \E i, j \in Incomplete : TieBreakScenario(i, j) /\ j < i

----------------------------------------------------------------------------
(* Repeated passes *)

\* the engine on its own, counting the passes
NextPasses ==
    scheduleTasks /\ calls < MaxPasses /\ calls' = calls + 1 /\ UNCHANGED <<loop, inflight>>

SpecPasses == InitEngine /\ [][NextPasses]_vars

\* C18: idempotence: a pass that follows a pass at once, with the same now and
\* no change to the task set in between, leaves scheduledStart and
\* scheduledEnd of every task as the first pass left them.
PassIdempotent ==
    [][(AfterPass /\ lastCall'.op = "scheduleTasks")
       => /\ Len(tasks') = Len(tasks)
          /\ \A i \in 1..Len(tasks) :
                /\ tasks'[i].key = tasks[i].key
                /\ tasks'[i].val.scheduledStart = tasks[i].val.scheduledStart
                /\ tasks'[i].val.scheduledEnd = tasks[i].val.scheduledEnd]_vars

\* a second pass has run over two incomplete tasks, one of which the first
\* pass had moved behind the other
PassIdempotentWitness ==
    /\ AfterPass
    /\ calls >= 2
    /\ \E i, j \in Incomplete :
         /\ i # j
         /\ Candidate(Slot(j)) < Slot(i).scheduledEnd
         /\ Slot(j).scheduledStart = Slot(i).scheduledEnd
         /\ Slot(i).estimatedHours > 0

----------------------------------------------------------------------------
(* Determinism *)

\* the fields of a task that a pass might depend on, apart from its slots
WithoutSlot(task) == [task EXCEPT !.scheduledStart = NULL, !.scheduledEnd = NULL]

\* a repository that holds the same tasks under the same keys as m, in the
\* order of the keys, and has not stored a slot yet
WithoutSlots(m) ==
    [i \in 1..Len(m) |->
        LET e == CHOOSE e \in {m[j] : j \in 1..Len(m)} :
                     Cardinality({k \in Keys(m) : k < e.key}) = i - 1
        IN  [key |-> e.key, val |-> WithoutSlot(e.val)]]

\* C19: the slots a pass assigns are a function of the stored tasks' ids,
\* dueDate, priority, estimatedHours and completed and of now only: after any
\* operation that ran a pass, every incomplete task carries the slot that a
\* pass assigns in a repository holding the same tasks with no slot stored,
\* whatever slots were stored before and whatever the history was.
SlotsDependOnTasksAndNowOnly ==
    (lastCall.pass /\ lastCall.ok) =>
        \A i \in Incomplete :
            LET other == Scheduled(WithoutSlots(tasks), now)
            IN  /\ MapGet(other, tasks[i].key).scheduledStart = Slot(i).scheduledStart
                /\ MapGet(other, tasks[i].key).scheduledEnd = Slot(i).scheduledEnd

CreationOrders(n) ==
    {p \in [1..n -> 1..n] : \A i, j \in 1..n : i # j => p[i] # p[j]}

\* what each stored task was created from
InputsOf(m) ==
    [i \in 1..Len(m) |->
        [estimatedHours |-> m[i].val.estimatedHours, priority |-> m[i].val.priority,
         dueDate |-> m[i].val.dueDate, completed |-> m[i].val.completed]]

\* the repository in which the records of m were created in the order
\* p[1], p[2], ...
CreatedInOrder(m, p) == StoreOf([i \in 1..Len(m) |-> InputsOf(m)[p[i]]], Len(m))

\* which slot the records of each content have in m
SlotsByContent(m) ==
    {<<InputsOf(m)[i], m[i].val.scheduledStart, m[i].val.scheduledEnd>> :
        i \in 1..Len(m)}

\* records of the same content have, after a pass, the slots they have after
\* a pass in every repository created from the same records in another order
SameSlotsInEveryOrder ==
    \A p \in CreationOrders(Len(tasks)) :
        SlotsByContent(Scheduled(CreatedInOrder(tasks, p), now)) = SlotsByContent(tasks)

\* C20 as stated: the commitment order is total: after a pass the slot of each
\* record depends only on the dueDate, priority and estimatedHours of the
\* records and on now, not on the order in which they were created or stored.
SlotsIndependentOfCreationOrder ==
    AfterPass => SameSlotsInEveryOrder

\* incomplete tasks that agree in both dueDate and priority also agree in
\* estimatedHours
NoCommitmentTie ==
    \A i, j \in Incomplete :
        (Slot(i).dueDate = Slot(j).dueDate /\ Slot(i).priority = Slot(j).priority)
            => Slot(i).estimatedHours = Slot(j).estimatedHours

\* C20 as amended: the same, for collections in which no two incomplete
\* records agree in dueDate and priority and differ in estimatedHours (records
\* that agree in dueDate and priority are committed in the order in which
\* they are stored).
SlotsIndependentOfCreationOrderWithoutTies ==
    (AfterPass /\ NoCommitmentTie) => SameSlotsInEveryOrder

\* a pass has committed a task stored later before a task stored earlier and
\* moved the earlier one behind it
SlotsIndependentOfCreationOrderWitness ==
    /\ AfterPass
    /\ NoCommitmentTie
    /\ \E i, j \in Incomplete :
         /\ i < j
         /\ Slot(j).estimatedHours > 0
         /\ Candidate(Slot(i)) < Slot(j).scheduledEnd
         /\ Slot(i).scheduledStart = Slot(j).scheduledEnd

----------------------------------------------------------------------------
(* The pass, one iteration of its for loop at a time *)

\* 0.25 h and 9 h; due the day before now at 10:00 and on now's day at 16:30
LoopEstimatedHours == {1, 36}

LoopDueDates == {HM(0, 10, 0), HM(1, 16, 30)}

LoopInputs ==
    [estimatedHours : LoopEstimatedHours, priority : RepositoryPriorities,
     dueDate : LoopDueDates, completed : {0, 1}]

InitLoop ==
    /\ \E n \in 0..MaxTasks : \E f \in [1..n -> LoopInputs] : tasks = StoreOf(f, n)
    /\ currentTaskId = Len(tasks) + 1
    /\ now \in Nows
    /\ lastCall = NoCall
    /\ issued = [i \in 1..Len(tasks) |-> i]
    /\ calls = 0
    /\ loop = NoLoop
    /\ inflight = {}

\* filter, sort, and the loop's variables before its first iteration
EnterLoop(m) ==
    [running |-> TRUE, incompleteTasks |-> IncompleteTasks(m), i |-> 1,
     latestScheduledEndTime |-> Epoch, visited |-> <<>>]

beginPass ==
    /\ ~loop.running
    /\ calls < MaxPasses
    /\ calls' = calls + 1
    /\ loop' = EnterLoop(tasks)
    /\ lastCall' = [NoCall EXCEPT !.op = "running"]
    /\ UNCHANGED <<tasks, currentTaskId, now, issued, inflight>>

\* a variant that commits a task only once it fits before 5 PM
visitTaskOnceItFits ==
    /\ loop.running
    /\ loop.i <= Len(loop.incompleteTasks)
    /\ LET task == loop.incompleteTasks[loop.i]
           updatedTask ==
               WithSlot(task, ScheduledStart(task, loop.latestScheduledEndTime, now))
       IN  /\ updatedTask.scheduledEnd <= setHours(updatedTask.scheduledStart, WorkEndHour, 0)
           /\ tasks' = MapSet(tasks, task.id, updatedTask)
           /\ loop' = [loop EXCEPT !.i = @ + 1,
                                   !.latestScheduledEndTime = updatedTask.scheduledEnd,
                                   !.visited = Append(@, task.id)]
    /\ UNCHANGED <<currentTaskId, now, lastCall, issued, calls, inflight>>

\* one iteration: the slot of incompleteTasks[i] is computed and stored
visitTask ==
    /\ loop.running
    /\ loop.i <= Len(loop.incompleteTasks)
    /\ LET task == loop.incompleteTasks[loop.i]
           updatedTask ==
               WithSlot(task, ScheduledStart(task, loop.latestScheduledEndTime, now))
       IN  /\ tasks' = MapSet(tasks, task.id, updatedTask)
           /\ loop' = [loop EXCEPT !.i = @ + 1,
                                   !.latestScheduledEndTime = updatedTask.scheduledEnd,
                                   !.visited = Append(@, task.id)]
    /\ UNCHANGED <<currentTaskId, now, lastCall, issued, calls, inflight>>

\* the loop is left and the values of the map are returned
endPass ==
    /\ loop.running
    /\ loop.i > Len(loop.incompleteTasks)
    /\ loop' = [loop EXCEPT !.running = FALSE]
    /\ lastCall' = [op |-> "scheduleTasks", id |-> NULL, arg |-> <<>>,
                    pass |-> TRUE, ok |-> TRUE,
                    ret |-> Values(tasks)]
    /\ UNCHANGED <<tasks, currentTaskId, now, issued, calls, inflight>>

NextLoop == beginPass \/ visitTask \/ endPass

\* the loop body has no await: a pass that has begun keeps running
SpecLoop == InitLoop /\ [][NextLoop]_vars /\ WF_vars(NextLoop)

\* the ids of the first k tasks in commitment order
VisitedUpTo(k) == [j \in 1..k |-> loop.incompleteTasks[j].id]

\* C21: a pass terminates: inside the loop each incomplete task is visited
\* once, in commitment order; every pass that has begun returns; and when it
\* has returned every incomplete task, also one longer than the 8-hour window,
\* has been visited exactly once and has a slot.
PassTerminates ==
    /\ [](loop.running =>
            /\ loop.i \in 1..(Len(loop.incompleteTasks) + 1)
            /\ loop.visited = VisitedUpTo(loop.i - 1))
    /\ []((~loop.running /\ AfterPass) =>
            /\ loop.visited = VisitedUpTo(Len(loop.incompleteTasks))
            /\ \A i \in Incomplete :
                  /\ HasSlot(Slot(i))
                  /\ Cardinality({j \in DOMAIN loop.visited :
                                     loop.visited[j] = Slot(i).id}) = 1)
    /\ (loop.running ~> ~loop.running)

\* a pass has returned after visiting two incomplete tasks, one of them longer
\* than the working day
PassTerminatesWitness ==
    /\ ~loop.running
    /\ AfterPass
    /\ Len(loop.visited) = 2
    /\ \E i \in Incomplete :
         /\ TaskDuration(Slot(i).estimatedHours)
               > (WorkEndHour - WorkStartHour) * MinutesPerHour
         /\ HasSlot(Slot(i))

----------------------------------------------------------------------------
(* The steps of the loop body, checked under SpecEngine *)

WorkingMinutes == (WorkEndHour - WorkStartHour) * MinutesPerHour

Oversized(task) == TaskDuration(task.estimatedHours) > WorkingMinutes

\* the scheduledEnd of the task committed just before task, Epoch for the
\* first task in commitment order
PreviousEnd(task) ==
    LET sorted == IncompleteTasks(tasks)
        k == CHOOSE j \in 1..Len(sorted) : sorted[j].id = task.id
    IN  IF k = 1 THEN Epoch ELSE sorted[k - 1].scheduledEnd

IsFirst(task) == IncompleteTasks(tasks)[1].id = task.id

\* the candidate of a task after the overlap step, before the fit-in-day step
CandidateAfterOverlap(task) == AfterLatestEnd(Candidate(task), PreviousEnd(task))

----------------------------------------------------------------------------
(* Requests in flight: each call runs until its await, the pass iteration by
   iteration, and the suspended calls resume in any order *)

\* create bodies of low priority that leave completed and the slots out
InterleavedCreatePayloads ==
    {p \in CreatePayloads :
        /\ p.completed = Undefined
        /\ p.scheduledStart = Undefined
        /\ p.priority = "low"}

\* update bodies that carry a dueDate, or completed, or nothing
InterleavedUpdatePayloads ==
    {p \in UpdatePayloadsNoId :
        /\ p.estimatedHours = Undefined /\ p.priority = "undefined"
        /\ p.scheduledStart = Undefined /\ p.scheduledEnd = Undefined}

\* a variant in which other calls run between two iterations of the loop
EventLoopFreeBetweenIterations == TRUE

\* scheduleTasks has no await: no other call runs while a pass is in its loop
EventLoopFree == ~loop.running

\* the pass has stored the slots of some incomplete tasks and not yet of all
MidPass ==
    /\ loop.running
    /\ Len(loop.visited) > 0
    /\ loop.i <= Len(loop.incompleteTasks)

\* createTask up to 'await this.scheduleTasks()'
startCreateTask(insertTask) ==
    LET id == currentTaskId
        task == Task(id,
                     OrElse(insertTask.estimatedHours, 0),
                     IF insertTask.priority = "undefined" THEN "medium"
                     ELSE insertTask.priority,
                     insertTask.dueDate,
                     OrElse(insertTask.completed, 0),
                     OrElse(insertTask.scheduledStart, NULL),
                     OrElse(insertTask.scheduledEnd, NULL))
    IN  /\ EventLoopFree
        /\ calls < MaxRequests
        /\ currentTaskId <= MaxId
        /\ calls' = calls + 1
        /\ currentTaskId' = currentTaskId + 1
        /\ tasks' = MapSet(tasks, id, task)
        /\ loop' = EnterLoop(MapSet(tasks, id, task))
        /\ inflight' = inflight \cup
              {[op |-> "createTask", id |-> id, arg |-> insertTask,
                pass |-> TRUE, ok |-> TRUE, task |-> <<task>>]}
        /\ UNCHANGED <<now, lastCall, issued>>

\* updateTask up to its await, or to its return when it runs no pass
startUpdateTask(id, taskUpdate) ==
    /\ EventLoopFree
    /\ calls < MaxRequests
    /\ calls' = calls + 1
    /\ IF ~MapHas(tasks, id)
       THEN /\ inflight' = inflight \cup
                  {[op |-> "updateTask", id |-> id, arg |-> taskUpdate,
                    pass |-> FALSE, ok |-> FALSE, task |-> <<>>]}
            /\ UNCHANGED <<tasks, loop>>
       ELSE LET updatedTask == Merge(MapGet(tasks, id), taskUpdate)
            IN  /\ tasks' = MapSet(tasks, id, updatedTask)
                /\ loop' = IF AffectsScheduling(taskUpdate)
                           THEN EnterLoop(MapSet(tasks, id, updatedTask))
                           ELSE loop
                /\ inflight' = inflight \cup
                      {[op |-> "updateTask", id |-> id, arg |-> taskUpdate,
                        pass |-> AffectsScheduling(taskUpdate), ok |-> TRUE,
                        task |-> <<updatedTask>>]}
    /\ UNCHANGED <<currentTaskId, now, lastCall, issued>>

\* deleteTask up to its await, or to its return when nothing was deleted
startDeleteTask(id) ==
    LET deleted == MapHas(tasks, id)
    IN  /\ EventLoopFree
        /\ calls < MaxRequests
        /\ calls' = calls + 1
        /\ tasks' = MapDelete(tasks, id)
        /\ loop' = IF deleted THEN EnterLoop(MapDelete(tasks, id)) ELSE loop
        /\ inflight' = inflight \cup
              {[op |-> "deleteTask", id |-> id, arg |-> <<>>,
                pass |-> deleted, ok |-> deleted, task |-> <<>>]}
        /\ UNCHANGED <<currentTaskId, now, lastCall, issued>>

\* a suspended call continues behind its await and returns
resume ==
    \E c \in inflight :
        LET ret == IF c.op = "createTask"
                   THEN IF MapHas(tasks, c.id) THEN <<MapGet(tasks, c.id)>> ELSE c.task
                   ELSE c.task
        IN  /\ EventLoopFree
            /\ inflight' = inflight \ {c}
            /\ lastCall' = [op |-> c.op, id |-> c.id, arg |-> c.arg,
                            pass |-> c.pass, ok |-> c.ok, ret |-> ret,
                            torn |-> MidPass]
            /\ issued' = IF c.op = "createTask" THEN Append(issued, ret[1].id) ELSE issued
            /\ UNCHANGED <<tasks, currentTaskId, now, calls, loop>>

getTasks ==
    /\ EventLoopFree
    /\ lastCall' = [op |-> "getTasks", id |-> NULL, arg |-> <<>>,
                    pass |-> FALSE, ok |-> TRUE, ret |-> Values(tasks),
                    torn |-> MidPass]
    /\ UNCHANGED <<tasks, currentTaskId, now, issued, calls, loop, inflight>>

getTask(id) ==
    /\ EventLoopFree
    /\ lastCall' = [op |-> "getTask", id |-> id, arg |-> <<>>,
                    pass |-> FALSE, ok |-> MapHas(tasks, id),
                    ret |-> IF MapHas(tasks, id) THEN <<MapGet(tasks, id)>> ELSE <<>>,
                    torn |-> MidPass]
    /\ UNCHANGED <<tasks, currentTaskId, now, issued, calls, loop, inflight>>

NextInterleaved ==
    \/ \E insertTask \in InterleavedCreatePayloads : startCreateTask(insertTask)
    \/ \E id \in FirstTaskId..MaxId, taskUpdate \in InterleavedUpdatePayloads :
          startUpdateTask(id, taskUpdate)
    \/ \E id \in FirstTaskId..MaxId : startDeleteTask(id)
    \/ visitTask
    \/ endPass
    \/ resume
    \/ getTasks
    \/ \E id \in FirstTaskId..MaxId : getTask(id)

SpecInterleaved == Init /\ [][NextInterleaved]_vars

\* C23: with several requests in flight that interleave at the await points of
\* createTask, updateTask and deleteTask, no getTasks or getTask call, and no
\* re-read of a resumed createTask, observes the store while a pass has
\* stored the slots of some incomplete tasks and not yet of the others.
ReadsNeverSeeHalfAPass ==
    lastCall.op \in {"getTasks", "getTask", "createTask"} => ~lastCall.torn

\* getTasks has returned two scheduled tasks while two calls were suspended at
\* their awaits
ReadsNeverSeeHalfAPassWitness ==
    /\ lastCall.op = "getTasks"
    /\ Cardinality(inflight) >= 2
    /\ Len(lastCall.ret) >= 2
    /\ \A j \in DOMAIN lastCall.ret : HasSlot(lastCall.ret[j])

----------------------------------------------------------------------------
(* The steps of the loop body, checked on stores whose due times and nows lie
   on the boundaries of the working window *)

\* 0.25 h, 1 h, 8 h
StepEstimatedHours == {1, 4, 32}

StepDueDates ==
    {HM(0, 8, 45), HM(1, 9, 0), HM(2, 10, 5), HM(0, 16, 0), HM(1, 16, 30),
     HM(1, 16, 50), HM(1, 17, 0), HM(2, 20, 0)}

StepNows ==
    {HM(1, 8, 0), HM(1, 9, 0), HM(1, 14, 0), HM(1, 14, 7), HM(1, 14, 50),
     HM(1, 16, 46), HM(1, 17, 0), HM(1, 23, 50)}

StepInputs ==
    [estimatedHours : StepEstimatedHours, priority : RepositoryPriorities,
     dueDate : StepDueDates, completed : {0}]

InitSteps ==
    /\ \E n \in 0..MaxTasks : \E f \in [1..n -> StepInputs] : tasks = StoreOf(f, n)
    /\ currentTaskId = Len(tasks) + 1
    /\ now \in StepNows
    /\ lastCall = NoCall
    /\ issued = [i \in 1..Len(tasks) |-> i]
    /\ calls = 0
    /\ loop = NoLoop
    /\ inflight = {}

SpecSteps == InitSteps /\ [][NextEngine]_vars

\* the due date's time of day on now's calendar day
DueTimeToday(task) == setHours(now, getHours(task.dueDate), getMinutes(task.dueDate))

OpeningToday == setHours(now, WorkStartHour, 0)

ClosingToday == setHours(now, WorkEndHour, 0)

\* C24: for the first task in commitment order, if its due time of day T
\* satisfies 09:00 <= T < 17:00, T on now's calendar day is not before now and
\* T + estimatedHours <= 17:00, then scheduledStart is exactly now's day at T,
\* neither rounded nor moved; T = 09:00 is honoured, and T = 17:00 is treated
\* as outside the window: such a task starts at 09:00 when now is not later.
DueTimeHonoured ==
    AfterPass =>
        \A i \in Incomplete :
            IsFirst(Slot(i)) =>
                /\ (/\ OpeningToday <= DueTimeToday(Slot(i))
                    /\ DueTimeToday(Slot(i)) < ClosingToday
                    /\ DueTimeToday(Slot(i)) >= now
                    /\ DueTimeToday(Slot(i)) + TaskDuration(Slot(i).estimatedHours)
                          <= ClosingToday)
                   => Slot(i).scheduledStart = DueTimeToday(Slot(i))
                /\ (/\ DueTimeToday(Slot(i)) = ClosingToday
                    /\ now <= OpeningToday
                    /\ ~Oversized(Slot(i)))
                   => Slot(i).scheduledStart = OpeningToday

\* a pass has committed the first task at its due time of day, which is no
\* multiple of a quarter hour, on another day than its due date
DueTimeHonouredWitness ==
    /\ AfterPass
    /\ \E i \in Incomplete :
         /\ IsFirst(Slot(i))
         /\ DayOf(Slot(i).dueDate) # DayOf(now)
         /\ getMinutes(Slot(i).dueDate) % RoundingMinutes # 0
         /\ now < DueTimeToday(Slot(i))
         /\ Slot(i).scheduledStart = DueTimeToday(Slot(i))


\* the due date's time of day lies outside [09:00, 17:00)
DueTimeOutsideWindow(task) ==
    \/ DueTimeToday(task) < OpeningToday
    \/ DueTimeToday(task) >= ClosingToday

\* C25: for the first task in commitment order, if its due time of day is
\* outside [09:00, 17:00) and now is at or before 09:00 of its day, then
\* scheduledStart is 09:00 on now's calendar day and scheduledEnd is that start
\* plus estimatedHours, for estimatedHours <= 8.
DefaultToWindowOpening ==
    AfterPass =>
        \A i \in Incomplete :
            (/\ IsFirst(Slot(i))
             /\ DueTimeOutsideWindow(Slot(i))
             /\ now <= OpeningToday
             /\ ~Oversized(Slot(i)))
            => /\ Slot(i).scheduledStart = OpeningToday
               /\ Slot(i).scheduledEnd
                     = OpeningToday + TaskDuration(Slot(i).estimatedHours)

\* a pass at 08:00 has committed a first task due at 20:00 at 09:00
DefaultToWindowOpeningWitness ==
    /\ AfterPass
    /\ now < OpeningToday
    /\ \E i \in Incomplete :
         /\ IsFirst(Slot(i))
         /\ getHours(Slot(i).dueDate) = 20
         /\ Slot(i).scheduledStart = OpeningToday
         /\ Slot(i).scheduledEnd = OpeningToday + TaskDuration(Slot(i).estimatedHours)


\* the least time at or after n whose minute is 0, 15, 30 or 45
LeastQuarterHourFrom(n) ==
    CHOOSE t \in n..(n + RoundingMinutes - 1) : getMinutes(t) \in {0, 15, 30, 45}

\* the due time of day on now's day when it is inside the window, else 09:00
PreferredToday(task) ==
    IF DueTimeOutsideWindow(task) THEN OpeningToday ELSE DueTimeToday(task)

\* C26: whenever a task's preferred candidate (its due time of day, or 09:00,
\* on now's day) is before now, the candidate becomes the least time >= now
\* whose minute is 0, 15, 30 or 45: now itself on such a boundary, the next
\* hour's :00 when now's minute is 46-59; with now inside the window and a first
\* task that fits, that value is the committed scheduledStart.
RoundUpToQuarterHour ==
    AfterPass =>
        \A i \in Incomplete :
            PreferredToday(Slot(i)) < now =>
                /\ NoPast(PreferredTime(Slot(i), now), now) = LeastQuarterHourFrom(now)
                /\ (getMinutes(now) \in {0, 15, 30, 45})
                       => NoPast(PreferredTime(Slot(i), now), now) = now
                /\ (getMinutes(now) >= 46)
                       => NoPast(PreferredTime(Slot(i), now), now)
                             = setHours(now, getHours(now) + 1, 0)
                /\ (/\ IsFirst(Slot(i))
                    /\ OpeningToday <= now
                    /\ now < ClosingToday
                    /\ LeastQuarterHourFrom(now) + TaskDuration(Slot(i).estimatedHours)
                          <= ClosingToday)
                   => Slot(i).scheduledStart = LeastQuarterHourFrom(now)

\* a pass at 14:07 has committed the first task, whose preferred time had
\* passed, at 14:15
RoundUpToQuarterHourWitness ==
    /\ AfterPass
    /\ now = HM(1, 14, 7)
    /\ \E i \in Incomplete :
         /\ IsFirst(Slot(i))
         /\ PreferredToday(Slot(i)) < now
         /\ Slot(i).scheduledStart = HM(1, 14, 15)


\* the candidate of a task after the no-past step, before the clamp
CandidateAfterNoPast(task) == NoPast(PreferredTime(task, now), now)

\* 09:00 of the calendar day after now's
OpeningTomorrow == HM(DayOf(now) + 1, WorkStartHour, 0)

\* C27: when the candidate after the no-past step has a time of day at or
\* after 17:00 it is moved to 09:00 of the next calendar day; when it has a
\* time of day before 09:00 (now 23:50 rounded across midnight to 00:00) it is
\* moved to 09:00 of that same calendar day; so for any now at or after 16:46
\* the first task (estimatedHours <= 8) starts at exactly 09:00 on the calendar
\* day following now, never two days later.
ClampIntoWorkingHours ==
    AfterPass =>
        \A i \in Incomplete :
            /\ TimeOfDay(CandidateAfterNoPast(Slot(i))) >= WorkEndHour * MinutesPerHour
                  => Candidate(Slot(i))
                        = HM(DayOf(CandidateAfterNoPast(Slot(i))) + 1, WorkStartHour, 0)
            /\ TimeOfDay(CandidateAfterNoPast(Slot(i))) < WorkStartHour * MinutesPerHour
                  => Candidate(Slot(i))
                        = HM(DayOf(CandidateAfterNoPast(Slot(i))), WorkStartHour, 0)
            /\ (/\ IsFirst(Slot(i))
                /\ ~Oversized(Slot(i))
                /\ now >= setHours(now, 16, 46))
               => Slot(i).scheduledStart = OpeningTomorrow

\* a pass at 23:50 has rounded the first task's candidate across midnight and
\* committed it at 09:00 of the day following now
ClampIntoWorkingHoursWitness ==
    /\ AfterPass
    /\ now = HM(1, 23, 50)
    /\ \E i \in Incomplete :
         /\ IsFirst(Slot(i))
         /\ CandidateAfterNoPast(Slot(i)) = HM(2, 0, 0)
         /\ Slot(i).scheduledStart = OpeningTomorrow


\* the task is committed after another one
HasPrevious(task) == ~IsFirst(task)

\* C28: for every task after the first in commitment order, if its clamped
\* candidate is before the previous task's scheduledEnd then, when it still
\* fits before 17:00, its scheduledStart equals exactly the previous task's
\* scheduledEnd with no gap; if its candidate is at or after the previous
\* task's scheduledEnd the candidate is kept unchanged; in all cases
\* scheduledStart >= the scheduledEnd of every task earlier in commitment order.
SequentialPlacement ==
    AfterPass =>
        \A i \in Incomplete :
            HasPrevious(Slot(i)) =>
                /\ (/\ Candidate(Slot(i)) < PreviousEnd(Slot(i))
                    /\ PreviousEnd(Slot(i)) + TaskDuration(Slot(i).estimatedHours)
                          <= setHours(PreviousEnd(Slot(i)), WorkEndHour, 0))
                   => Slot(i).scheduledStart = PreviousEnd(Slot(i))
                /\ (Candidate(Slot(i)) >= PreviousEnd(Slot(i)))
                   => /\ CandidateAfterOverlap(Slot(i)) = Candidate(Slot(i))
                      /\ (Candidate(Slot(i)) + TaskDuration(Slot(i).estimatedHours)
                             <= setHours(Candidate(Slot(i)), WorkEndHour, 0))
                         => Slot(i).scheduledStart = Candidate(Slot(i))
                /\ \A j \in Incomplete :
                       Follows(tasks, Slot(j), Slot(i))
                           => Slot(i).scheduledStart >= Slot(j).scheduledEnd

\* a pass has placed a task, whose candidate lay before its predecessor's end,
\* directly behind the predecessor, off its own due time of day
SequentialPlacementWitness ==
    /\ AfterPass
    /\ \E i \in Incomplete :
         /\ HasPrevious(Slot(i))
         /\ Candidate(Slot(i)) < PreviousEnd(Slot(i))
         /\ Slot(i).scheduledStart = PreviousEnd(Slot(i))
         /\ Slot(i).scheduledStart # DueTimeToday(Slot(i))


\* the end a task would have if it started at its candidate after the overlap
\* step
TentativeEnd(task) == CandidateAfterOverlap(task) + TaskDuration(task.estimatedHours)

\* 17:00 of the day of the candidate after the overlap step
CandidateDayClose(task) == setHours(CandidateAfterOverlap(task), WorkEndHour, 0)

\* C29: for a task with estimatedHours <= 8, if candidate start plus
\* estimatedHours is strictly after 17:00 of the candidate's day the committed
\* scheduledStart is exactly 09:00 of the next calendar day, not the due time
\* of day on the next day, and that start is still >= the previous task's
\* scheduledEnd; if candidate start plus estimatedHours equals 17:00 exactly
\* the candidate is kept and the task ends at the boundary.
FitInDayMovesToNextOpening ==
    AfterPass =>
        \A i \in Incomplete :
            ~Oversized(Slot(i)) =>
                /\ TentativeEnd(Slot(i)) > CandidateDayClose(Slot(i))
                      => /\ Slot(i).scheduledStart
                               = HM(DayOf(CandidateAfterOverlap(Slot(i))) + 1, WorkStartHour, 0)
                         /\ Slot(i).scheduledStart >= PreviousEnd(Slot(i))
                /\ TentativeEnd(Slot(i)) = CandidateDayClose(Slot(i))
                      => /\ Slot(i).scheduledStart = CandidateAfterOverlap(Slot(i))
                         /\ Slot(i).scheduledEnd = CandidateDayClose(Slot(i))

\* a pass has moved a one-hour task due at 16:30 to 09:00-10:00 of the next
\* day
FitInDayMovesToNextOpeningWitness ==
    /\ AfterPass
    /\ \E i \in Incomplete :
         /\ Slot(i).estimatedHours = 4
         /\ CandidateAfterOverlap(Slot(i)) = HM(1, 16, 30)
         /\ Slot(i).scheduledStart = HM(2, 9, 0)
         /\ Slot(i).scheduledEnd = HM(2, 10, 0)


----------------------------------------------------------------------------
(* Updates that carry no schedule-relevant field, checked under Spec *)

\* the payload carries none of estimatedHours, priority, dueDate
NoScheduleField(taskUpdate) ==
    /\ ~Carries(taskUpdate, "estimatedHours")
    /\ ~Carries(taskUpdate, "priority")
    /\ ~Carries(taskUpdate, "dueDate")

\* C30: updateTask(id, fields) on an existing id whose payload contains none
\* of estimatedHours, priority, dueDate runs no pass and leaves scheduledStart
\* and scheduledEnd of every stored task, including the updated one, unchanged.
NonScheduleUpdateKeepsSlots ==
    [][(/\ lastCall'.op = "updateTask"
        /\ MapHas(tasks, lastCall'.id)
        /\ NoScheduleField(lastCall'.arg))
       => /\ ~lastCall'.pass
          /\ Len(tasks') = Len(tasks)
          /\ \A i \in 1..Len(tasks) :
                /\ tasks'[i].key = tasks[i].key
                /\ tasks'[i].val.scheduledStart = tasks[i].val.scheduledStart
                /\ tasks'[i].val.scheduledEnd = tasks[i].val.scheduledEnd]_vars


\* the same update when the payload carries no slot field either: it runs no
\* pass and every stored slot stays as it was
UpdateWithoutSlotFieldsKeepsSlots ==
    [][(/\ lastCall'.op = "updateTask"
        /\ MapHas(tasks, lastCall'.id)
        /\ NoScheduleField(lastCall'.arg)
        /\ ~Carries(lastCall'.arg, "scheduledStart")
        /\ ~Carries(lastCall'.arg, "scheduledEnd"))
       => /\ ~lastCall'.pass
          /\ Len(tasks') = Len(tasks)
          /\ \A i \in 1..Len(tasks) :
                /\ tasks'[i].key = tasks[i].key
                /\ tasks'[i].val.scheduledStart = tasks[i].val.scheduledStart
                /\ tasks'[i].val.scheduledEnd = tasks[i].val.scheduledEnd]_vars


----------------------------------------------------------------------------
(* Properties of the stored slots in every reachable state *)

\* C31: in every state reachable by createTask, updateTask, deleteTask and
\* scheduleTasks calls, observed between operations, every stored task with
\* completed = false has non-null scheduledStart and scheduledEnd.
EveryIncompleteTaskHasSlot ==
    \A i \in Incomplete : HasSlot(Slot(i))


\* the same repository when no update body sets completed back to 0
UpdatePayloadsNoUncomplete == {p \in UpdatePayloads : p.completed # 0}

NextNoUncomplete ==
    \/ \E insertTask \in CreatePayloads : createTask(insertTask) /\ Served
    \/ \E id \in FirstTaskId..MaxId, taskUpdate \in UpdatePayloadsNoUncomplete :
          updateTask(id, taskUpdate) /\ Served
    \/ \E id \in FirstTaskId..MaxId : deleteTask(id) /\ Served
    \/ scheduleTasks /\ Served

SpecNoUncomplete == Init /\ [][NextNoUncomplete]_vars


----------------------------------------------------------------------------
(* Passes over stores that hold a task longer than the working day *)

\* 0.25 h, 8 h, 9 h, 17 h
OversizedEstimatedHours == {1, 32, 36, 68}

OversizedDueDates == {HM(0, 10, 0), HM(1, 16, 30)}

OversizedNows == {HM(1, 8, 0), HM(1, 14, 7), HM(1, 23, 50)}

OversizedInputs ==
    [estimatedHours : OversizedEstimatedHours, priority : RepositoryPriorities,
     dueDate : OversizedDueDates, completed : {0}]

InitOversized ==
    /\ \E n \in 0..MaxTasks : \E f \in [1..n -> OversizedInputs] : tasks = StoreOf(f, n)
    /\ currentTaskId = Len(tasks) + 1
    /\ now \in OversizedNows
    /\ lastCall = NoCall
    /\ issued = [i \in 1..Len(tasks) |-> i]
    /\ calls = 0
    /\ loop = NoLoop
    /\ inflight = {}

SpecOversized == InitOversized /\ [][NextEngine]_vars

\* the slot lies inside the working window of one calendar day
InWindow(task) ==
    /\ TimeOfDay(task.scheduledStart) >= WorkStartHour * MinutesPerHour
    /\ TimeOfDay(task.scheduledEnd) <= WorkEndHour * MinutesPerHour
    /\ DayOf(task.scheduledStart) = DayOf(task.scheduledEnd)

\* C32: after a pass over a set that contains a task with estimatedHours > 8,
\* every other incomplete task with estimatedHours <= 8, also one later in
\* commitment order whose candidate is moved to the oversized task's
\* scheduledEnd, has scheduledStart at or after 09:00 and scheduledEnd at or
\* before 17:00 of the same calendar day.
OversizedCorruptsNoOtherSlot ==
    AfterPass =>
        ((\E j \in Incomplete : Oversized(Slot(j)))
            => \A i \in Incomplete : ~Oversized(Slot(i)) => InWindow(Slot(i)))


\* every incomplete task has 0.25 <= estimatedHours <= 8
AllDurationsValid ==
    \A i \in Incomplete : Slot(i).estimatedHours >= 1 /\ ~Oversized(Slot(i))

\* C33: when every incomplete task has 0.25 <= estimatedHours <= 8, after a
\* pass every incomplete task has 09:00 <= time of day of scheduledStart <
\* 17:00, time of day of scheduledEnd <= 17:00, and start and end on the same
\* calendar day, for every now and every combination of due dates and
\* priorities.
ContainmentUnderValidDurations ==
    (AfterPass /\ AllDurationsValid) =>
        \A i \in Incomplete :
            /\ TimeOfDay(Slot(i).scheduledStart) >= WorkStartHour * MinutesPerHour
            /\ TimeOfDay(Slot(i).scheduledStart) < WorkEndHour * MinutesPerHour
            /\ TimeOfDay(Slot(i).scheduledEnd) <= WorkEndHour * MinutesPerHour
            /\ DayOf(Slot(i).scheduledStart) = DayOf(Slot(i).scheduledEnd)

\* a pass has committed one task up to 17:00 exactly and has moved the next,
\* whose candidate lay before that end, to 09:00 of the following day
ContainmentUnderValidDurationsWitness ==
    /\ AfterPass
    /\ AllDurationsValid
    /\ \E i, j \in Incomplete :
         /\ Slot(i).scheduledEnd = ClosingToday
         /\ Candidate(Slot(j)) < Slot(i).scheduledEnd
         /\ PreviousEnd(Slot(j)) = Slot(i).scheduledEnd
         /\ Slot(j).scheduledStart = OpeningTomorrow


\* 09:00 of the day after the day of the task's candidate after the overlap
\* step
OpeningAfterCandidate(task) ==
    HM(DayOf(CandidateAfterOverlap(task)) + 1, WorkStartHour, 0)

\* the fit-in-day step has moved the task by one calendar day or not at all
MovedAtMostOnce(task) ==
    \/ task.scheduledStart = CandidateAfterOverlap(task)
    \/ task.scheduledStart = OpeningAfterCandidate(task)

\* the end of the task is the latest end the following tasks start behind
LatestEndSetTo(task) ==
    \A j \in Incomplete :
        Follows(tasks, task, Slot(j)) => Slot(j).scheduledStart >= task.scheduledEnd

\* C34: the fit-in-day step moves a task forward by at most one calendar day
\* and is not repeated; a task with estimatedHours > 8 is committed with
\* scheduledStart at 09:00 of the day after its candidate and scheduledEnd =
\* scheduledStart + estimatedHours, which lies after 17:00 of that day, and
\* the latest end is set to that end.
SingleDayAdvance ==
    AfterPass =>
        \A i \in Incomplete :
            /\ MovedAtMostOnce(Slot(i))
            /\ Oversized(Slot(i))
                  => /\ Slot(i).scheduledStart = OpeningAfterCandidate(Slot(i))
                     /\ Slot(i).scheduledEnd
                           = Slot(i).scheduledStart + TaskDuration(Slot(i).estimatedHours)
                     /\ Slot(i).scheduledEnd
                           > setHours(Slot(i).scheduledStart, WorkEndHour, 0)
                     /\ LatestEndSetTo(Slot(i))


\* the parts of C34 that hold for every task: one move at most, the slot as
\* long as the duration, the following tasks behind its end
FitInDayMovesAtMostOnce ==
    AfterPass =>
        \A i \in Incomplete :
            /\ MovedAtMostOnce(Slot(i))
            /\ Slot(i).scheduledEnd
                  = Slot(i).scheduledStart + TaskDuration(Slot(i).estimatedHours)
            /\ LatestEndSetTo(Slot(i))


----------------------------------------------------------------------------
(* Ties in the commitment order *)

\* the two tasks agree in dueDate and in priority
SameDueDateAndPriority(a, b) == a.dueDate = b.dueDate /\ a.priority = b.priority

\* C35: after a pass, among incomplete tasks with identical dueDate and
\* identical priority, the task with the smaller id (created earlier) has
\* scheduledEnd <= the scheduledStart of the task with the larger id, after
\* any sequence of creates, deletes and updates.
CreationOrderTieBreak ==
    (lastCall.pass /\ lastCall.ok) =>
        \A i, j \in Incomplete :
            (SameDueDateAndPriority(Slot(i), Slot(j)) /\ Slot(i).id < Slot(j).id)
                => Slot(i).scheduledEnd <= Slot(j).scheduledStart

\* a pass that followed a delete or an update has placed two tasks of equal
\* dueDate and priority, the one created earlier first
CreationOrderTieBreakWitness ==
    /\ lastCall.op \in {"updateTask", "deleteTask"}
    /\ lastCall.pass
    /\ lastCall.ok
    /\ \E i, j \in Incomplete :
         /\ SameDueDateAndPriority(Slot(i), Slot(j))
         /\ Slot(i).id < Slot(j).id
         /\ TaskDuration(Slot(i).estimatedHours) > 0
         /\ Slot(i).scheduledEnd <= Slot(j).scheduledStart


\* the repository after one createTask call
TieInputs ==
    [estimatedHours : RepositoryEstimatedHours, priority : {"low"},
     dueDate : {HM(0, 10, 0)}, completed : {0}]

InitTies ==
    /\ now \in RepositoryNows
    /\ \E f \in [1..1 -> TieInputs] : tasks = Scheduled(StoreOf(f, 1), now)
    /\ currentTaskId = Len(tasks) + 1
    /\ lastCall = NoCall
    /\ issued = [i \in 1..Len(tasks) |-> i]
    /\ calls = 0
    /\ loop = NoLoop
    /\ inflight = {}

SpecTies == InitTies /\ [][Next]_vars


----------------------------------------------------------------------------
(* Passes over stores in which completed tasks hold their last-known slots *)

\* the repository after n createTask calls and after updateTask(id,
\* {completed: 1}) for the tasks that f marks as completed
StoreAfterCompleting(f, n, t) ==
    LET created == Scheduled(StoreOf([i \in 1..n |-> [f[i] EXCEPT !.completed = 0]], n), t)
    IN  [i \in 1..n |->
            [key |-> created[i].key,
             val |-> [created[i].val EXCEPT !.completed = f[i].completed]]]

InitCompleted ==
    /\ now \in Nows
    /\ \E n \in 0..MaxTasks : \E f \in [1..n -> TaskInputs] :
          tasks = StoreAfterCompleting(f, n, now)
    /\ currentTaskId = Len(tasks) + 1
    /\ lastCall = NoCall
    /\ issued = [i \in 1..Len(tasks) |-> i]
    /\ calls = 0
    /\ loop = NoLoop
    /\ inflight = {}

SpecCompleted == InitCompleted /\ [][NextEngine]_vars

\* the store without its completed tasks
WithoutCompleted(m) == SelectSeq(m, LAMBDA e : e.val.completed = 0)

\* C36: a pass places incomplete tasks without regard to the stored slots of
\* completed tasks: the slots assigned to incomplete tasks are the same as if
\* every completed task were absent from the store, and an incomplete task's
\* slot may overlap a completed task's last-known slot.
CompletedReserveNoTime ==
    AfterPass =>
        \A i \in Incomplete :
            LET other == Scheduled(WithoutCompleted(tasks), now)
            IN  /\ MapHas(other, tasks[i].key)
                /\ MapGet(other, tasks[i].key).scheduledStart = Slot(i).scheduledStart
                /\ MapGet(other, tasks[i].key).scheduledEnd = Slot(i).scheduledEnd

\* a pass has placed an incomplete task on time that the last-known slot of a
\* completed task covers
CompletedReserveNoTimeWitness ==
    /\ AfterPass
    /\ \E i \in Incomplete, c \in Stored :
         /\ Slot(c).completed # 0
         /\ HasSlot(Slot(c))
         /\ Slot(c).scheduledStart < Slot(c).scheduledEnd
         /\ Slot(i).scheduledStart < Slot(i).scheduledEnd
         /\ ~Disjoint(Slot(i), Slot(c))


----------------------------------------------------------------------------
(* The calendar date of the due date *)

\* calendar days for a due date: before now's day, now's day and after it
DueDays == 0..3

\* the task with its due date moved to the same time of day on another day
DueOnDay(task, day) ==
    [task EXCEPT !.dueDate = HM(day, getHours(task.dueDate), getMinutes(task.dueDate))]

\* C37: for a store holding a single incomplete task, two dueDate values with
\* the same time of day but different calendar dates, dates before now
\* included, yield the same scheduledStart and scheduledEnd; the calendar date
\* never decides the day of placement, so a task can be placed after its own
\* due date.
DueDateDayDoesNotPlace ==
    (AfterPass /\ Cardinality(Incomplete) = 1) =>
        \A i \in Incomplete : \A day \in DueDays :
            LET other == Scheduled(<<[key |-> tasks[i].key,
                                      val |-> DueOnDay(Slot(i), day)]>>, now)
            IN  /\ other[1].val.scheduledStart = Slot(i).scheduledStart
                /\ other[1].val.scheduledEnd = Slot(i).scheduledEnd

\* a pass has placed the only incomplete task, due at 16:00 the day before
\* now, after its due date
DueDateDayDoesNotPlaceWitness ==
    /\ AfterPass
    /\ Cardinality(Incomplete) = 1
    /\ \E i \in Incomplete :
         /\ DayOf(Slot(i).dueDate) < DayOf(now)
         /\ Slot(i).scheduledStart > Slot(i).dueDate
         /\ Slot(i).scheduledStart = DueTimeToday(Slot(i))

====
